---- MODULE Spec2Model ----
(***************************************************************************)
(* Model of the error-log analysis engine of                               *)
(* src/commands/py/analyze-errors/__init__.py.                             *)
(*                                                                         *)
(* A text is a sequence of lexemes (tokens).  A token is a run of          *)
(* characters that the regular expressions and the JSON scanner of the     *)
(* program never look inside: punctuation is one token per character,      *)
(* a word, a number, a path or a fixed phrase of a signature is one token. *)
(* The regular expressions of the program are written over tokens and run  *)
(* by a backtracking matcher with Python's priorities (leftmost start,     *)
(* first alternative, greedy or lazy repetition).                          *)
(***************************************************************************)
EXTENDS Integers, Sequences, FiniteSets, TLC

(***************************************************************************)
(* Tokens.                                                                 *)
(***************************************************************************)
SP == " "
NL == "\n"
DQ == "\""
SQ == "'"
\* the two characters backslash + double quote, as written inside a JSON string
EDQ == "\\\""
\* the two characters backslash + single quote, as written by repr()
ESQ == "\\'"
\* a run of opening brackets longer than the interpreter's recursion limit
DeepOpen == "[[[[..."

\* the status codes of the table of get_http_error_explanation, as tokens
TableCodeToks == {"400", "401", "403", "404", "405", "408", "429",
                  "500", "502", "503", "504"}
\* the runs of three digits: the table codes, two codes outside the table
\* and one with leading zeros
Digit3Toks == TableCodeToks \cup {"599", "250", "007"}
\* the digit runs that are no JSON number (leading zeros)
LeadingZeroToks == {"007"}
DigitToks == {"7", "42"} \cup Digit3Toks
WordToks == DigitToks \cup
    {"x", "bad", "boom", "main", "handler", "user_id", "f", "None",
     "HTTPError", "TimeoutError", "ETIMEDOUT", "ECONNREFUSED",
     "OperationalError", "IntegrityError", "Connection", "Refused", "Error",
     "connection", "refused", "error", "undefined", "null",
     "message", "stack", "detail", "httperror", "took", "ms"}

\* re.IGNORECASE: the case-folded form of a token
Fold(t) ==
    CASE t = "Connection" -> "connection"
      [] t = "Refused" -> "refused"
      [] t = "Error" -> "error"
      [] t = "ValueError:" -> "valueerror:"
      [] t = "HTTPError" -> "httperror"
      [] OTHER -> t

\* character classes of the patterns, as predicates on tokens
InClass(c, t) ==
    CASE c = "w" -> t \in WordToks            \* \w
      [] c = "d" -> t \in DigitToks           \* \d
      [] c = "d3" -> t \in Digit3Toks         \* \d{3}
      [] c = "any" -> t # NL                  \* .
      [] c = "nodq" -> t \notin {DQ, EDQ}     \* [^"]
      [] OTHER -> FALSE

(***************************************************************************)
(* Pattern elements.  An element matches a run of tokens that are each in  *)
(* lit (a set of literal tokens) or in the class cls; the run has at least *)
(* min tokens and at most one token unless many; grp is the capture group  *)
(* the run is bound to (0: none).                                          *)
(***************************************************************************)
Lit(t) == [lit |-> {t}, cls |-> "", min |-> 1, many |-> FALSE, lazy |-> FALSE, grp |-> 0]
OneOf(S, g) == [lit |-> S, cls |-> "", min |-> 1, many |-> FALSE, lazy |-> FALSE, grp |-> g]
Opt(S) == [lit |-> S, cls |-> "", min |-> 0, many |-> FALSE, lazy |-> FALSE, grp |-> 0]
Plus(c, g) == [lit |-> {}, cls |-> c, min |-> 1, many |-> TRUE, lazy |-> FALSE, grp |-> g]
Star(c) == [lit |-> {}, cls |-> c, min |-> 0, many |-> TRUE, lazy |-> FALSE, grp |-> 0]
LazyPlus(c, g) == [lit |-> {}, cls |-> c, min |-> 1, many |-> TRUE, lazy |-> TRUE, grp |-> g]
LazyStar(c) == [lit |-> {}, cls |-> c, min |-> 0, many |-> TRUE, lazy |-> TRUE, grp |-> 0]
Cls(c, g) == [lit |-> {}, cls |-> c, min |-> 1, many |-> FALSE, lazy |-> FALSE, grp |-> g]

\* does token t match element e (ic: re.IGNORECASE)
TokMatches(e, t, ic) ==
    \/ InClass(e.cls, t)
    \/ IF ic THEN Fold(t) \in {Fold(l) : l \in e.lit} ELSE t \in e.lit

\* length of the longest run of tokens matching e that starts at pos
RECURSIVE RunLen(_, _, _, _)
RunLen(e, text, pos, ic) ==
    IF pos > Len(text) \/ ~TokMatches(e, text[pos], ic) THEN 0
    ELSE 1 + RunLen(e, text, pos + 1, ic)

Min2(a, b) == IF a < b THEN a ELSE b

NoMatch == [ok |-> FALSE, lens |-> <<>>]

(***************************************************************************)
(* MatchAt(pat, k, text, pos, ic): the first way, in the regex engine's    *)
(* priority order, to match elements k.. of pat at position pos: lens[j]   *)
(* is the number of tokens taken by element k+j-1.                         *)
(***************************************************************************)
RECURSIVE MatchAt(_, _, _, _, _), TryLens(_, _, _, _, _, _, _, _)
MatchAt(pat, k, text, pos, ic) ==
    IF k > Len(pat) THEN [ok |-> TRUE, lens |-> <<>>]
    ELSE
      LET e == pat[k]
          run == RunLen(e, text, pos, ic)
          hi == IF e.many THEN run ELSE Min2(run, 1)
      IN  IF hi < e.min THEN NoMatch
          ELSE IF e.lazy THEN TryLens(pat, k, text, pos, ic, e.min, 1, hi)
          ELSE TryLens(pat, k, text, pos, ic, hi, -1, e.min)

\* element k takes j tokens if the rest then matches; otherwise the next
\* length in the direction step (greedy: downwards, lazy: upwards) up to last
TryLens(pat, k, text, pos, ic, j, step, last) ==
    LET rest == MatchAt(pat, k + 1, text, pos + j, ic)
    IN  IF rest.ok THEN [ok |-> TRUE, lens |-> <<j>> \o rest.lens]
        ELSE IF j = last THEN NoMatch
        ELSE TryLens(pat, k, text, pos, ic, j + step, step, last)

RECURSIVE SumSeq(_)
SumSeq(s) == IF s = <<>> THEN 0 ELSE Head(s) + SumSeq(Tail(s))

\* the match object: start and end (exclusive) positions, the pattern matched
\* and the tokens taken by each of its elements
NoMatchObj == [ok |-> FALSE, start |-> 0, end |-> 0, pat |-> <<>>, lens |-> <<>>]

\* first alternative of alts (a sequence of patterns, the top-level |) that
\* matches at pos
RECURSIVE MatchAltsAt(_, _, _, _, _)
MatchAltsAt(alts, a, text, pos, ic) ==
    IF a > Len(alts) THEN NoMatchObj
    ELSE LET m == MatchAt(alts[a], 1, text, pos, ic)
         IN  IF m.ok
             THEN [ok |-> TRUE, start |-> pos, end |-> pos + SumSeq(m.lens),
                   pat |-> alts[a], lens |-> m.lens]
             ELSE MatchAltsAt(alts, a + 1, text, pos, ic)

\* re.search from position pos on: the leftmost match
RECURSIVE SearchFrom(_, _, _, _)
SearchFrom(alts, text, pos, ic) ==
    IF pos > Len(text) THEN NoMatchObj
    ELSE LET m == MatchAltsAt(alts, 1, text, pos, ic)
         IN  IF m.ok THEN m ELSE SearchFrom(alts, text, pos + 1, ic)

re_search(alts, text, ic) == SearchFrom(alts, text, 1, ic)

\* re.finditer: the successive non-overlapping matches, left to right
RECURSIVE FindFrom(_, _, _)
FindFrom(alts, text, pos) ==
    LET m == SearchFrom(alts, text, pos, FALSE)
    IN  IF ~m.ok THEN <<>>
        ELSE <<m>> \o FindFrom(alts, text, IF m.end > m.start THEN m.end ELSE m.end + 1)

re_finditer(alts, text) == FindFrom(alts, text, 1)

\* match.group(0)
Group0(m, text) == SubSeq(text, m.start, m.end - 1)

\* start position of element k of the match
RECURSIVE ElemStart(_, _)
ElemStart(m, k) == IF k = 1 THEN m.start ELSE ElemStart(m, k - 1) + m.lens[k - 1]

\* match.group(g): the tokens taken by the element bound to group g
Group(m, text, g) ==
    LET k == CHOOSE i \in 1..Len(m.pat) : m.pat[i].grp = g
    IN  SubSeq(text, ElemStart(m, k), ElemStart(m, k) + m.lens[k] - 1)

(***************************************************************************)
(* The signature registry ERROR_PATTERNS: src is the pattern text, alts    *)
(* its token form (one pattern per top-level alternative).  Quotes         *)
(* ['\"] are the set {SQ, DQ}.                                             *)
(***************************************************************************)
Quote == {SQ, DQ}

ERROR_PATTERNS == <<
    [src |-> "ModuleNotFoundError: No module named '(\\w+)'",
     alts |-> << <<Lit("ModuleNotFoundError: No module named "), Lit(SQ),
                   Plus("w", 1), Lit(SQ)>> >>],
    [src |-> "ImportError: cannot import name '(\\w+)' from '(\\w+)'",
     alts |-> << <<Lit("ImportError: cannot import name "), Lit(SQ), Plus("w", 1),
                   Lit(SQ), Lit(" from "), Lit(SQ), Plus("w", 2), Lit(SQ)>> >>],
    [src |-> "TypeError: (\\w+)\\(\\) takes (\\d+) positional arguments? but (\\d+) (?:was|were) given",
     alts |-> << <<Lit("TypeError: "), Plus("w", 1), Lit("() takes "), Plus("d", 2),
                   OneOf({" positional argument but ", " positional arguments but "}, 0),
                   Plus("d", 3), OneOf({" was given", " were given"}, 0)>> >>],
    [src |-> "AttributeError: '(\\w+)' object has no attribute '(\\w+)'",
     alts |-> << <<Lit("AttributeError: "), Lit(SQ), Plus("w", 1), Lit(SQ),
                   Lit(" object has no attribute "), Lit(SQ), Plus("w", 2), Lit(SQ)>> >>],
    [src |-> "KeyError: ['\\\"]?(\\w+)['\\\"]?",
     alts |-> << <<Lit("KeyError:"), Lit(SP), Opt(Quote), Plus("w", 1), Opt(Quote)>> >>],
    [src |-> "ValueError: (.+)",
     alts |-> << <<Lit("ValueError:"), Lit(SP), Plus("any", 1)>> >>],
    [src |-> "FileNotFoundError: \\[Errno 2\\] No such file or directory: ['\\\"](.+)['\\\"]",
     alts |-> << <<Lit("FileNotFoundError: [Errno 2] No such file or directory: "),
                   OneOf(Quote, 0), Plus("any", 1), OneOf(Quote, 0)>> >>],
    [src |-> "PermissionError: \\[Errno 13\\] Permission denied: ['\\\"](.+)['\\\"]",
     alts |-> << <<Lit("PermissionError: [Errno 13] Permission denied: "),
                   OneOf(Quote, 0), Plus("any", 1), OneOf(Quote, 0)>> >>],
    [src |-> "ReferenceError: (\\w+) is not defined",
     alts |-> << <<Lit("ReferenceError: "), Plus("w", 1), Lit(" is not defined")>> >>],
    [src |-> "TypeError: Cannot read propert(?:y|ies) ['\\\"]?(\\w+)['\\\"]? of (undefined|null)",
     alts |-> << <<Lit("TypeError: "),
                   OneOf({"Cannot read property ", "Cannot read properties "}, 0),
                   Opt(Quote), Plus("w", 1), Opt(Quote), Lit(" of "),
                   OneOf({"undefined", "null"}, 2)>> >>],
    [src |-> "SyntaxError: Unexpected token (.+)",
     alts |-> << <<Lit("SyntaxError: Unexpected token "), Plus("any", 1)>> >>],
    [src |-> "Error: ENOENT: no such file or directory, (?:open|stat) ['\\\"](.+)['\\\"]",
     alts |-> << <<Lit("Error: ENOENT: no such file or directory, "),
                   OneOf({"open ", "stat "}, 0), OneOf(Quote, 0), Plus("any", 1),
                   OneOf(Quote, 0)>> >>],
    [src |-> "Error: Cannot find module ['\\\"](.+)['\\\"]",
     alts |-> << <<Lit("Error: Cannot find module "), OneOf(Quote, 0), Plus("any", 1),
                   OneOf(Quote, 0)>> >>],
    [src |-> "(?:psycopg2\\.)?OperationalError.*connection.*refused",
     alts |-> << <<Opt({"psycopg2."}), Lit("OperationalError"), Star("any"),
                   Lit("connection"), Star("any"), Lit("refused")>> >>],
    [src |-> "(?:sqlite3\\.)?IntegrityError.*UNIQUE constraint failed: (\\w+)\\.(\\w+)",
     alts |-> << <<Opt({"sqlite3."}), Lit("IntegrityError"), Star("any"),
                   Lit("UNIQUE constraint failed: "), Plus("w", 1), Lit("."),
                   Plus("w", 2)>> >>],
    [src |-> "(?:mysql\\.connector\\.)?IntegrityError.*Duplicate entry",
     alts |-> << <<Opt({"mysql.connector."}), Lit("IntegrityError"), Star("any"),
                   Lit("Duplicate entry")>> >>],
    [src |-> "ConnectionRefusedError|ECONNREFUSED",
     alts |-> << <<Lit("connection"), Lit("refused"), Lit("error")>>,
                 <<Lit("ECONNREFUSED")>> >>],
    [src |-> "TimeoutError|ETIMEDOUT",
     alts |-> << <<Lit("TimeoutError")>>, <<Lit("ETIMEDOUT")>> >>],
    [src |-> "(?:requests\\.exceptions\\.)?HTTPError.*(\\d{3})",
     alts |-> << <<Opt({"requests.exceptions."}), Lit("HTTPError"), Star("any"),
                   Cls("d3", 1)>> >>]
>>

\* int(): the value of a digit token
IntOf(t) ==
    CASE t = "7" -> 7 [] t = "42" -> 42 [] t = "007" -> 7 [] t = "250" -> 250
      [] t = "400" -> 400 [] t = "401" -> 401 [] t = "403" -> 403 [] t = "404" -> 404
      [] t = "405" -> 405 [] t = "408" -> 408 [] t = "429" -> 429 [] t = "500" -> 500
      [] t = "502" -> 502 [] t = "503" -> 503 [] t = "504" -> 504 [] t = "599" -> 599
      [] OTHER -> 0

\* str() of an integer
StrOfInt(n) ==
    CASE n = 7 -> "7" [] n = 42 -> "42" [] n = 250 -> "250"
      [] n = 400 -> "400" [] n = 401 -> "401" [] n = 403 -> "403" [] n = 404 -> "404"
      [] n = 405 -> "405" [] n = 408 -> "408" [] n = 429 -> "429" [] n = 500 -> "500"
      [] n = 502 -> "502" [] n = 503 -> "503" [] n = 504 -> "504" [] n = 599 -> "599"
      [] OTHER -> "0"

\* get_http_error_explanation with a fault: the entry of 429 is not in the table
get_http_error_explanation_without_429(status_code) ==
    CASE status_code = 400 -> <<"Bad Request - The server couldn't understand the request. Check request format.">>
      [] status_code = 401 -> <<"Unauthorized - Authentication required. Check API keys or login credentials.">>
      [] status_code = 403 -> <<"Forbidden - Access denied. Check permissions and authorization.">>
      [] status_code = 404 -> <<"Not Found - The resource doesn't exist. Verify the URL.">>
      [] status_code = 405 -> <<"Method Not Allowed - Wrong HTTP method. Check if using GET/POST/PUT/DELETE correctly.">>
      [] status_code = 408 -> <<"Request Timeout - The request took too long. Try again or increase timeout.">>
      [] status_code = 500 -> <<"Internal Server Error - Server-side issue. Check server logs.">>
      [] status_code = 502 -> <<"Bad Gateway - Proxy/load balancer issue. Check upstream services.">>
      [] status_code = 503 -> <<"Service Unavailable - Server is overloaded or under maintenance.">>
      [] status_code = 504 -> <<"Gateway Timeout - Upstream server didn't respond in time.">>
      [] OTHER -> <<"HTTP error ", StrOfInt(status_code), ". Check the API documentation.">>

get_http_error_explanation(status_code) ==
    CASE status_code = 400 -> <<"Bad Request - The server couldn't understand the request. Check request format.">>
      [] status_code = 401 -> <<"Unauthorized - Authentication required. Check API keys or login credentials.">>
      [] status_code = 403 -> <<"Forbidden - Access denied. Check permissions and authorization.">>
      [] status_code = 404 -> <<"Not Found - The resource doesn't exist. Verify the URL.">>
      [] status_code = 405 -> <<"Method Not Allowed - Wrong HTTP method. Check if using GET/POST/PUT/DELETE correctly.">>
      [] status_code = 408 -> <<"Request Timeout - The request took too long. Try again or increase timeout.">>
      [] status_code = 429 -> <<"Too Many Requests - Rate limited. Implement backoff and retry logic.">>
      [] status_code = 500 -> <<"Internal Server Error - Server-side issue. Check server logs.">>
      [] status_code = 502 -> <<"Bad Gateway - Proxy/load balancer issue. Check upstream services.">>
      [] status_code = 503 -> <<"Service Unavailable - Server is overloaded or under maintenance.">>
      [] status_code = 504 -> <<"Gateway Timeout - Upstream server didn't respond in time.">>
      [] OTHER -> <<"HTTP error ", StrOfInt(status_code), ". Check the API documentation.">>

\* s.split('/')[0]: the tokens before the first "/"
RECURSIVE BeforeSlash(_)
BeforeSlash(s) ==
    IF s = <<>> \/ Head(s) = "/" THEN <<>> ELSE <<Head(s)>> \o BeforeSlash(Tail(s))

\* the explanation producer of signature i applied to the match m of text
explanation_fn(i, m, text) ==
    LET g1 == Group(m, text, 1)
        g2 == Group(m, text, 2)
        g3 == Group(m, text, 3)
    IN CASE i = 1 -> <<"Python module '">> \o g1 \o <<"' is not installed. Try: pip install ">> \o g1
         [] i = 2 -> <<"Cannot import '">> \o g1 \o <<"' from '">> \o g2
                     \o <<"'. Check if it exists or if there's a circular import.">>
         [] i = 3 -> <<"Function '">> \o g1 \o <<"' expects ">> \o g2
                     \o <<" argument(s) but received ">> \o g3 \o <<".">>
         [] i = 4 -> <<"Object of type '">> \o g1 \o <<"' doesn't have attribute '">> \o g2
                     \o <<"'. Check spelling or if the object is the correct type.">>
         [] i = 5 -> <<"Dictionary key '">> \o g1
                     \o <<"' not found. Use .get() for safe access or check if key exists.">>
         [] i = 6 -> <<"Invalid value: ">> \o g1 \o <<". Validate input data before processing.">>
         [] i = 7 -> <<"File not found: '">> \o g1
                     \o <<"'. Check the path exists and has correct permissions.">>
         [] i = 8 -> <<"Permission denied for: '">> \o g1
                     \o <<"'. Check file permissions or run with elevated privileges.">>
         [] i = 9 -> <<"Variable '">> \o g1
                     \o <<"' is not defined. Check for typos or ensure it's in scope.">>
         [] i = 10 -> <<"Tried to access '">> \o g1 \o <<"' on ">> \o g2
                      \o <<". Add null checks or optional chaining (?.).">>
         [] i = 11 -> <<"Syntax error: unexpected '">> \o g1
                      \o <<"'. Check for missing brackets, quotes, or semicolons.">>
         [] i = 12 -> <<"Node.js cannot find file: '">> \o g1 \o <<"'. Verify the path exists.">>
         [] i = 13 -> <<"Node module '">> \o g1 \o <<"' not found. Try: npm install ">>
                      \o BeforeSlash(g1)
         [] i = 14 -> <<"Database connection refused. Check if the database server is running and accessible.">>
         [] i = 15 -> <<"Duplicate value in ">> \o g1 \o <<".">> \o g2
                      \o <<". The value must be unique.">>
         [] i = 16 -> <<"Duplicate entry violates unique constraint. Check for existing records.">>
         [] i = 17 -> <<"Connection refused. The target service may be down or the port may be wrong.">>
         [] i = 18 -> <<"Connection timed out. Check network connectivity and service availability.">>
         [] OTHER -> get_http_error_explanation(IntOf(Head(g1)))

(***************************************************************************)
(* extract_stack_frames: the Python frames, then the JavaScript frames.    *)
(***************************************************************************)
py_pattern == << <<Lit("File "), Lit(DQ), Plus("nodq", 1), Lit(DQ), Lit(", line "),
                   Plus("d", 2), Lit(", in "), Plus("w", 3)>> >>

js_pattern == << <<Lit("at "), Plus("w", 1), LazyStar("any"), Lit("("),
                   LazyPlus("any", 2), Lit(":"), Plus("d", 3), Lit(":"), Plus("d", 0),
                   Lit(")")>> >>

\* the frames of the matches ms of one dialect: fg, lg, ng are the groups
\* holding the file, the line and the function
RECURSIVE FramesOf(_, _, _, _, _)
FramesOf(ms, log, fg, lg, ng) ==
    IF ms = <<>> THEN <<>>
    ELSE <<[file |-> Group(Head(ms), log, fg),
            line |-> Group(Head(ms), log, lg),
            function |-> Group(Head(ms), log, ng)]>>
         \o FramesOf(Tail(ms), log, fg, lg, ng)

PyFrames(log) == FramesOf(re_finditer(py_pattern, log), log, 1, 2, 3)
JsFrames(log) == FramesOf(re_finditer(js_pattern, log), log, 2, 3, 1)

\* extract_stack_frames with a fault: the JavaScript scan runs first
extract_stack_frames_js_first(log) == JsFrames(log) \o PyFrames(log)

extract_stack_frames(log) == PyFrames(log) \o JsFrames(log)

(***************************************************************************)
(* json.loads over tokens.  A parsed value is a record: k is its kind      *)
(* ("str", "num", "null", "list", "dict"), s the tokens of a string or a   *)
(* number, items the elements of a list or the [key, val] pairs of a dict. *)
(* A scan returns st = "ok" with the value v and the position next after   *)
(* it, or st = the exception raised.                                       *)
(***************************************************************************)
JNull == [k |-> "null", s |-> <<>>, items |-> <<>>]
JStr(s) == [k |-> "str", s |-> s, items |-> <<>>]
JNum(t) == [k |-> "num", s |-> <<t>>, items |-> <<>>]
JList(items) == [k |-> "list", s |-> <<>>, items |-> items]
JDict(pairs) == [k |-> "dict", s |-> <<>>, items |-> pairs]

JSONDecodeError == [st |-> "JSONDecodeError", v |-> JNull, next |-> 0]
RecursionError == [st |-> "RecursionError", v |-> JNull, next |-> 0]
Scanned(v, next) == [st |-> "ok", v |-> v, next |-> next]

\* the JSON whitespace after position i is skipped
RECURSIVE SkipWs(_, _)
SkipWs(s, i) == IF i <= Len(s) /\ s[i] \in {SP, NL} THEN SkipWs(s, i + 1) ELSE i

\* the string whose opening quote is before position i; acc is its decoded text
RECURSIVE ParseString(_, _, _)
ParseString(s, i, acc) ==
    IF i > Len(s) THEN JSONDecodeError                 \* unterminated string
    ELSE IF s[i] = DQ THEN Scanned(JStr(acc), i + 1)
    ELSE IF s[i] \in {NL, ESQ} THEN JSONDecodeError    \* control character, bad escape
    ELSE ParseString(s, i + 1, Append(acc, IF s[i] = EDQ THEN DQ ELSE s[i]))

RECURSIVE ScanOnce(_, _), ParseObject(_, _, _, _), ParseArray(_, _, _, _)
ScanOnce(s, i) ==
    IF i > Len(s) THEN JSONDecodeError
    ELSE CASE s[i] = DQ -> ParseString(s, i + 1, <<>>)
           [] s[i] = "{" -> ParseObject(s, SkipWs(s, i + 1), <<>>, TRUE)
           [] s[i] = "[" -> ParseArray(s, SkipWs(s, i + 1), <<>>, TRUE)
           [] s[i] = DeepOpen -> RecursionError
           [] s[i] \in DigitToks \ LeadingZeroToks -> Scanned(JNum(s[i]), i + 1)
           [] s[i] = "null" -> Scanned(JNull, i + 1)
           [] OTHER -> JSONDecodeError

\* the object whose "{" (first) or "," is before position i
ParseObject(s, i, pairs, first) ==
    IF first /\ i <= Len(s) /\ s[i] = "}" THEN Scanned(JDict(pairs), i + 1)
    ELSE IF i > Len(s) \/ s[i] # DQ THEN JSONDecodeError
    ELSE
      LET key == ParseString(s, i + 1, <<>>)
          colon == SkipWs(s, key.next)
          val == ScanOnce(s, SkipWs(s, colon + 1))
          after == SkipWs(s, val.next)
          more == Append(pairs, [key |-> key.v.s, val |-> val.v])
      IN  IF key.st # "ok" THEN key
          ELSE IF colon > Len(s) \/ s[colon] # ":" THEN JSONDecodeError
          ELSE IF val.st # "ok" THEN val
          ELSE IF after > Len(s) THEN JSONDecodeError
          ELSE IF s[after] = "}" THEN Scanned(JDict(more), after + 1)
          ELSE IF s[after] = "," THEN ParseObject(s, SkipWs(s, after + 1), more, FALSE)
          ELSE JSONDecodeError

\* the array whose "[" (first) or "," is before position i
ParseArray(s, i, items, first) ==
    IF first /\ i <= Len(s) /\ s[i] = "]" THEN Scanned(JList(items), i + 1)
    ELSE
      LET val == ScanOnce(s, i)
          after == SkipWs(s, val.next)
          more == Append(items, val.v)
      IN  IF val.st # "ok" THEN val
          ELSE IF after > Len(s) THEN JSONDecodeError
          ELSE IF s[after] = "]" THEN Scanned(JList(more), after + 1)
          ELSE IF s[after] = "," THEN ParseArray(s, SkipWs(s, after + 1), more, FALSE)
          ELSE JSONDecodeError

json_loads(s) ==
    LET r == ScanOnce(s, SkipWs(s, 1))
    IN  IF r.st # "ok" THEN r
        ELSE IF SkipWs(s, r.next) # Len(s) + 1 THEN JSONDecodeError   \* extra data
        ELSE r

\* dict.get(key, default): the last pair with that key
RECURSIVE DictGet(_, _, _)
DictGet(pairs, key, default) ==
    IF pairs = <<>> THEN default
    ELSE IF pairs[Len(pairs)].key = key THEN pairs[Len(pairs)].val
    ELSE DictGet(SubSeq(pairs, 1, Len(pairs) - 1), key, default)

Contains(s, t) == \E i \in 1..Len(s) : s[i] = t

\* repr() of a string: single quotes, unless it holds a single quote and no
\* double quote
ReprStr(s) ==
    IF Contains(s, SQ) /\ ~Contains(s, DQ) THEN <<DQ>> \o s \o <<DQ>>
    ELSE <<SQ>> \o [i \in 1..Len(s) |-> IF s[i] = SQ THEN ESQ ELSE s[i]] \o <<SQ>>

\* repr() of a parsed value, and of the elements of a list or dict from i on
RECURSIVE Repr(_), ReprItems(_, _, _)
Repr(v) ==
    CASE v.k = "str" -> ReprStr(v.s)
      [] v.k = "num" -> v.s
      [] v.k = "null" -> <<"None">>
      [] v.k = "list" -> <<"[">> \o ReprItems(v.items, 1, FALSE) \o <<"]">>
      [] OTHER -> <<"{">> \o ReprItems(v.items, 1, TRUE) \o <<"}">>

ReprItems(items, i, isdict) ==
    IF i > Len(items) THEN <<>>
    ELSE (IF i > 1 THEN <<",", SP>> ELSE <<>>)
         \o (IF isdict
             THEN ReprStr(items[i].key) \o <<":", SP>> \o Repr(items[i].val)
             ELSE Repr(items[i]))
         \o ReprItems(items, i + 1, isdict)

\* str() of a parsed value
PyStr(v) == IF v.k = "str" THEN v.s ELSE Repr(v)

(***************************************************************************)
(* detect_log_format.  A function of the program returns exc = "none" and  *)
(* its value val, or the exception exc it raises.                          *)
(***************************************************************************)
TracebackHeader == "Traceback (most recent call last):"

js_detect_pattern == << <<Lit("at "), Plus("w", 0), LazyStar("any"), Lit("("),
                          LazyPlus("any", 0), Lit(":"), Plus("d", 0), Lit(":"),
                          Plus("d", 0), Lit(")")>> >>

Return(v) == [exc |-> "none", val |-> v]
Raise(e) == [exc |-> e, val |-> <<>>]

\* detect_log_format with a fault: "at <identifier>" alone decides javascript
detect_log_format_at_only(log) ==
    LET parsed == json_loads(log)
    IN  IF parsed.st = "ok" THEN Return("json")
        ELSE IF parsed.st # "JSONDecodeError" THEN Raise(parsed.st)
        ELSE IF Contains(log, TracebackHeader) THEN Return("python")
        ELSE IF re_search(<< <<Lit("at "), Plus("w", 0)>> >>, log, FALSE).ok
        THEN Return("javascript")
        ELSE Return("plain")

detect_log_format(log) ==
    LET parsed == json_loads(log)
    IN  IF parsed.st = "ok" THEN Return("json")
        ELSE IF parsed.st # "JSONDecodeError" THEN Raise(parsed.st)
        ELSE IF Contains(log, TracebackHeader) THEN Return("python")
        ELSE IF re_search(js_detect_pattern, log, FALSE).ok THEN Return("javascript")
        ELSE Return("plain")

(***************************************************************************)
(* analyze_error.  A Python value passed as log is [ty, s]: ty is its type *)
(* ("str", "int", "list") and s the tokens of a str.                       *)
(***************************************************************************)
PyStrVal(s) == [ty |-> "str", s |-> s]
PyInt == [ty |-> "int", s |-> <<>>]
PyList == [ty |-> "list", s |-> <<>>]

NoMatchSuggestion == <<"No known error patterns matched. Review the full log for context.">>

GenericSuggestions == <<
    <<"Add logging around the error location for more context">>,
    <<"Check if this error is reproducible consistently">>,
    <<"Review recent code changes that might have caused this">> >>

LocationSuggestion(first_frame) ==
    <<"Error originated in ">> \o first_frame.file \o <<":">> \o first_frame.line
    \o <<" in function ">> \o first_frame.function

\* lines 202-203: the format the analysis runs under
ResolveFormat(log, log_format) ==
    IF log_format = "auto" THEN detect_log_format(log) ELSE Return(log_format)

\* RebuildLog with a fault: the error field is left out of the rebuilt text
RebuildLog_without_error(message, error, stack) ==
    IF message.k # "str" \/ error.k # "str" THEN Raise("TypeError")
    ELSE Return(message.s \o <<SP>> \o <<SP>> \o PyStr(stack))

\* lines 216-217: the text rebuilt from the parsed mapping
RebuildLog(message, error, stack) ==
    IF message.k # "str" \/ error.k # "str" THEN Raise("TypeError")
    ELSE Return(message.s \o <<SP>> \o error.s \o <<SP>> \o PyStr(stack))

\* lines 214-219: the text after json.loads ended as parsed
RewriteParsed(log, parsed) ==
    IF parsed.st = "JSONDecodeError" THEN Return(log)
    ELSE IF parsed.st # "ok" THEN Raise(parsed.st)
    ELSE IF parsed.v.k # "dict" THEN Return(log)
    ELSE RebuildLog(DictGet(parsed.v.items, <<"message">>, JStr(<<>>)),
                    DictGet(parsed.v.items, <<"error">>, JStr(<<>>)),
                    DictGet(parsed.v.items, <<"stack">>, JStr(<<>>)))

\* lines 213-219: the text that matching and extraction run on
RewriteLog(log, fmt) ==
    IF fmt # "json" THEN Return(log) ELSE RewriteParsed(log, json_loads(log))

\* MatchSignatures with a fault: the loop ends at the first signature that matches
RECURSIVE MatchSignatures_first_only(_, _)
MatchSignatures_first_only(log, i) ==
    IF i > Len(ERROR_PATTERNS) THEN <<>>
    ELSE
      LET match == re_search(ERROR_PATTERNS[i].alts, log, TRUE)
      IN  IF match.ok
          THEN <<[pattern |-> ERROR_PATTERNS[i].src,
                  match |-> Group0(match, log),
                  explanation |-> explanation_fn(i, match, log)]>>
          ELSE MatchSignatures_first_only(log, i + 1)

\* lines 222-229: the loop over the registry from signature i on
RECURSIVE MatchSignatures(_, _)
MatchSignatures(log, i) ==
    IF i > Len(ERROR_PATTERNS) THEN <<>>
    ELSE
      LET match == re_search(ERROR_PATTERNS[i].alts, log, TRUE)
      IN  (IF match.ok
           THEN <<[pattern |-> ERROR_PATTERNS[i].src,
                   match |-> Group0(match, log),
                   explanation |-> explanation_fn(i, match, log)]>>
           ELSE <<>>)
          \o MatchSignatures(log, i + 1)

\* BuildSuggestions with a fault: the no-match sentence is left out
BuildSuggestions_without_nomatch(errors_found, stack_frames) ==
    (IF stack_frames # <<>> THEN <<LocationSuggestion(stack_frames[1])>> ELSE <<>>)
    \o GenericSuggestions

\* BuildSuggestions with a fault: the no-match sentence is always added
BuildSuggestions_always_nomatch(errors_found, stack_frames) ==
    <<NoMatchSuggestion>>
    \o (IF stack_frames # <<>> THEN <<LocationSuggestion(stack_frames[1])>> ELSE <<>>)
    \o GenericSuggestions

\* BuildSuggestions with a fault: the generic suggestions are left out
BuildSuggestions_without_generic(errors_found, stack_frames) ==
    (IF errors_found = <<>> THEN <<NoMatchSuggestion>> ELSE <<>>)
    \o (IF stack_frames # <<>> THEN <<LocationSuggestion(stack_frames[1])>> ELSE <<>>)

\* BuildSuggestions with a fault: the location sentence is put first
BuildSuggestions_location_first(errors_found, stack_frames) ==
    (IF stack_frames # <<>> THEN <<LocationSuggestion(stack_frames[1])>> ELSE <<>>)
    \o (IF errors_found = <<>> THEN <<NoMatchSuggestion>> ELSE <<>>)
    \o GenericSuggestions

\* lines 235-249
BuildSuggestions(errors_found, stack_frames) ==
    (IF errors_found = <<>> THEN <<NoMatchSuggestion>> ELSE <<>>)
    \o (IF stack_frames # <<>> THEN <<LocationSuggestion(stack_frames[1])>> ELSE <<>>)
    \o GenericSuggestions

\* FramesSource with a fault: the frames are extracted from the input text
FramesSource_original(log, original) == original

\* lines 231-232: the text the stack frames are extracted from (log is the
\* rewritten text, original the text passed to analyze_error)
FramesSource(log, original) == log

\* lines 205-210 and 251: the result assembled
AnalysisResult(fmt, errors_found, stack_frames) ==
    Return([format_detected |-> fmt,
            errors_found |-> errors_found,
            suggestions |-> BuildSuggestions(errors_found, stack_frames),
            stack_frames |-> stack_frames])

\* lines 221-251, once the text is rewritten (or the rewriting has raised)
AnalyzeRewritten(original, fmt, text) ==
    IF text.exc # "none" THEN Raise(text.exc)
    ELSE AnalysisResult(fmt, MatchSignatures(text.val, 1),
                        extract_stack_frames(FramesSource(text.val, original)))

\* lines 205-251, once the format is resolved (or the detection has raised)
AnalyzeResolved(log, fmt) ==
    IF fmt.exc # "none" THEN Raise(fmt.exc)
    ELSE AnalyzeRewritten(log, fmt.val, RewriteLog(log, fmt.val))

analyze_error(log, log_format) ==
    IF log.ty # "str" THEN Raise("TypeError")
    ELSE AnalyzeResolved(log.s, ResolveFormat(log.s, log_format))

(***************************************************************************)
(* format_analysis: the report as its sequence of lines.                   *)
(***************************************************************************)
MaxReportFrames == 10

\* the backquote character of the report (a TLA+ string cannot hold it)
BQ == "<backquote>"

RECURSIVE ErrorLines(_, _)
ErrorLines(errors_found, i) ==
    IF i > Len(errors_found) THEN <<>>
    ELSE << <<"### Error ", ToString(i)>>,
            <<"**Match:** ", BQ>> \o errors_found[i].match \o <<BQ>>,
            <<"**Explanation:** ">> \o errors_found[i].explanation,
            <<>> >>
         \o ErrorLines(errors_found, i + 1)

FrameLine(frame) ==
    <<"- ", BQ>> \o frame.file \o <<":">> \o frame.line \o <<BQ, " in ", BQ>>
    \o frame.function \o <<BQ>>

\* format_analysis with a fault: every stack frame is listed
format_analysis_all_frames(analysis) ==
    << <<"# Error Analysis Report">>, <<>>,
       <<"**Log Format:** ", analysis.format_detected>>, <<>> >>
    \o (IF analysis.errors_found # <<>>
        THEN << <<"## Errors Identified">>, <<>> >> \o ErrorLines(analysis.errors_found, 1)
        ELSE <<>>)
    \o (IF analysis.stack_frames # <<>>
        THEN << <<"## Stack Trace">>, <<>> >>
             \o [i \in 1..Len(analysis.stack_frames) |->
                    FrameLine(analysis.stack_frames[i])]
             \o << <<>> >>
        ELSE <<>>)
    \o (IF analysis.suggestions # <<>>
        THEN << <<"## Suggestions">>, <<>> >>
             \o [i \in 1..Len(analysis.suggestions) |-> <<"- ">> \o analysis.suggestions[i]]
        ELSE <<>>)

format_analysis(analysis) ==
    << <<"# Error Analysis Report">>, <<>>,
       <<"**Log Format:** ", analysis.format_detected>>, <<>> >>
    \o (IF analysis.errors_found # <<>>
        THEN << <<"## Errors Identified">>, <<>> >> \o ErrorLines(analysis.errors_found, 1)
        ELSE <<>>)
    \o (IF analysis.stack_frames # <<>>
        THEN << <<"## Stack Trace">>, <<>> >>
             \o [i \in 1..Min2(Len(analysis.stack_frames), MaxReportFrames) |->
                    FrameLine(analysis.stack_frames[i])]
             \o << <<>> >>
        ELSE <<>>)
    \o (IF analysis.suggestions # <<>>
        THEN << <<"## Suggestions">>, <<>> >>
             \o [i \in 1..Len(analysis.suggestions) |-> <<"- ">> \o analysis.suggestions[i]]
        ELSE <<>>)

(***************************************************************************)
(* execute.  args is [log, format]; a key that is absent holds Missing.    *)
(* The file system is the environment: fs says what log_input names        *)
(* ("nofile": not a regular file, "file": a file whose text is content,    *)
(* "unreadable": a file whose open or read fails).                         *)
(***************************************************************************)
Missing == [ty |-> "missing", s |-> <<>>]
MissingFormat == "<missing>"

None == [some |-> FALSE, s |-> <<>>]
Some(s) == [some |-> TRUE, s |-> s]

CommandResult(success, output, error) ==
    [success |-> success, output |-> output, error |-> error]

\* not log_input
Falsy(v) == v.ty = "str" /\ v.s = <<>>

\* ExecuteAnalysis with a fault: the report title is kept as output on failure
ExecuteAnalysis_partial(analysis) ==
    IF analysis.exc # "none"
    THEN Return(CommandResult(FALSE, << <<"# Error Analysis Report">> >>,
                              Some(<<"Analysis failed: ", analysis.exc>>)))
    ELSE Return(CommandResult(TRUE, format_analysis(analysis.val), None))

\* lines 313-326
ExecuteAnalysis(analysis) ==
    IF analysis.exc # "none"
    THEN Return(CommandResult(FALSE, <<>>, Some(<<"Analysis failed: ", analysis.exc>>)))
    ELSE Return(CommandResult(TRUE, format_analysis(analysis.val), None))

\* lines 293-326, with log_input and log_format read from args
ExecuteInput(log_input, log_format, fs, content) ==
    IF Falsy(log_input)
    THEN Return(CommandResult(FALSE, <<>>,
             Some(<<"No log input provided. Use log='...' to provide error text.">>)))
    ELSE IF log_input.ty = "list" THEN Raise("TypeError")       \* os.path.isfile
    ELSE IF fs = "unreadable"
    THEN Return(CommandResult(FALSE, <<>>, Some(<<"Failed to read log file: ", "OSError">>)))
    ELSE ExecuteAnalysis(analyze_error(IF fs = "file" THEN PyStrVal(content) ELSE log_input,
                                       log_format))

execute(args, fs, content) ==
    ExecuteInput(IF args.log = Missing THEN PyStrVal(<<>>) ELSE args.log,
                 IF args.format = MissingFormat THEN "auto" ELSE args.format,
                 fs, content)

(***************************************************************************)
(* The inputs: texts of at most MaxLines lines, and JSON documents.        *)
(***************************************************************************)
MaxLines == 2

KeyErrorLine == <<"KeyError:", SP, SQ, "user_id", SQ>>
PyFrameLine == <<SP, SP, "File ", DQ, "app.py", DQ, ", line ", "42", ", in ", "handler">>
JsFrameLine == <<SP, SP, "at ", "main", SP, "(", "app.js", ":", "7", ":", "42", ")">>

Lines == {
    KeyErrorLine,
    <<"KeyError:", SP, "x">>,
    <<"ValueError:", SP, "HTTPError", SP, "404">>,
    <<"OperationalError", SP, "Connection", "Refused", "Error">>,
    <<TracebackHeader>>,
    PyFrameLine,
    JsFrameLine,
    <<SP, SP, "at ", "main">>,
    <<"boom">> }

\* the lines ls joined by newlines
RECURSIVE JoinLines(_)
JoinLines(ls) ==
    IF ls = <<>> THEN <<>>
    ELSE IF Len(ls) = 1 THEN ls[1]
    ELSE ls[1] \o <<NL>> \o JoinLines(Tail(ls))

PlainTexts == {JoinLines(ls) : ls \in UNION {[1..n -> Lines] : n \in 0..MaxLines}}

\* json.dumps, used to write the JSON documents of the inputs
RECURSIVE Dumps(_), DumpsItems(_, _, _)
Dumps(v) ==
    CASE v.k = "str" -> <<DQ>> \o [i \in 1..Len(v.s) |-> IF v.s[i] = DQ THEN EDQ ELSE v.s[i]]
                        \o <<DQ>>
      [] v.k = "num" -> v.s
      [] v.k = "null" -> <<"null">>
      [] v.k = "list" -> <<"[">> \o DumpsItems(v.items, 1, FALSE) \o <<"]">>
      [] OTHER -> <<"{">> \o DumpsItems(v.items, 1, TRUE) \o <<"}">>

DumpsItems(items, i, isdict) ==
    IF i > Len(items) THEN <<>>
    ELSE (IF i > 1 THEN <<",", SP>> ELSE <<>>)
         \o (IF isdict
             THEN Dumps(JStr(items[i].key)) \o <<":", SP>> \o Dumps(items[i].val)
             ELSE Dumps(items[i]))
         \o DumpsItems(items, i + 1, isdict)

Absent == [k |-> "absent", s |-> <<>>, items |-> <<>>]
Field(key, v) == IF v = Absent THEN <<>> ELSE <<[key |-> <<key>>, val |-> v]>>

MessageValues == {Absent, JStr(<<"boom">>), JStr(<<"ValueError:">>), JNum("7")}
ErrorValues == {Absent, JStr(<<"bad">>), JStr(KeyErrorLine), JNull}
StackValues == {Absent, JStr(PyFrameLine), JStr(JsFrameLine), JNum("42"),
                JList(<<JStr(PyFrameLine)>>)}

\* the document {"message": "boom", "error": "ValueError: bad"}
ExampleDoc ==
    Dumps(JDict(Field("message", JStr(<<"boom">>))
                \o Field("error", JStr(<<"ValueError:", SP, "bad">>))))

JsonTexts ==
    {Dumps(JDict(Field("message", m) \o Field("error", e) \o Field("stack", st))) :
        m \in MessageValues, e \in ErrorValues, st \in StackValues}
    \cup {ExampleDoc,
          Dumps(JDict(Field("detail", JStr(KeyErrorLine)))),
          Dumps(JList(<<JStr(<<"boom">>), JNum("7")>>)),
          Dumps(JStr(KeyErrorLine)),
          <<"42", NL>>,
          <<"{", DQ, "message", DQ, ":", SP>>,
          <<DeepOpen>>}

\* texts that carry HTTP status codes: every three-digit run after HTTPError,
\* the qualified and the lower-case name, a second number later on the line,
\* and a number on the next line
HttpTexts ==
    {<<"HTTPError", SP, c>> : c \in Digit3Toks}
    \cup {<<"requests.exceptions.", "HTTPError", ":", SP, "503">>,
          <<"httperror", SP, "500">>,
          <<"HTTPError", SP, "404", SP, "took", SP, "250", SP, "ms">>,
          <<"HTTPError", SP, "404", NL, "500">>}

Texts == PlainTexts \cup JsonTexts \cup HttpTexts

\* more stack frames than a report lists, each with its own line number
FrameLineNumbers == <<"7", "42", "400", "401", "403", "404", "405", "408", "429", "500",
                      "502", "503">>
ManyFrames ==
    [i \in 1..Len(FrameLineNumbers) |->
        [file |-> <<"app.py">>, line |-> <<FrameLineNumbers[i]>>, function |-> <<"handler">>]]

\* analyses built by a caller of format_analysis: each sequence empty or not
GivenErrors ==
    {<<>>, <<[pattern |-> "TimeoutError|ETIMEDOUT", match |-> <<"ETIMEDOUT">>,
             explanation |-> <<"Connection timed out. Check network connectivity and service availability.">>]>>}
GivenFrames ==
    {<<>>, <<[file |-> <<"app.js">>, line |-> <<"7">>, function |-> <<"main">>]>>, ManyFrames}
GivenSuggestions == {<<>>, GenericSuggestions}
GivenAnalyses ==
    {[format_detected |-> f, errors_found |-> e, suggestions |-> sg, stack_frames |-> fr] :
        f \in {"plain", "xml"}, e \in GivenErrors, sg \in GivenSuggestions, fr \in GivenFrames}

Hints == {"auto", "json", "plain", "xml"}

LogValues == {PyStrVal(t) : t \in Texts} \cup {PyInt, PyList, Missing}
FormatValues == Hints \cup {MissingFormat}

\* the file system seen by execute: a log_input that names no file, a file
\* that cannot be read, or a file with its text
PathValues == {PyStrVal(<<"app.log">>), PyInt}
FileContents == {<<>>, KeyErrorLine, Dumps(JDict(Field("message", JNum("7"))))}
Envs == {[fs |-> "unreadable", content |-> <<>>]}
        \cup {[fs |-> "file", content |-> c] : c \in FileContents}

(***************************************************************************)
(* Calls are made one at a time, from op = "init".                         *)
(* The state: the operation that ran last (op), its arguments (args), the  *)
(* file system it saw (env), what it returned or raised (ret), and the     *)
(* report rendered from ret by format_analysis (report).                   *)
(***************************************************************************)
VARIABLES op, args, env, ret, report

(***************************************************************************)
(* Concurrent calls of analyze_error (threads of one process).  calls[c]   *)
(* holds the local variables of call c and the statement it is at (pc);    *)
(* registry is the module-level list ERROR_PATTERNS, the one object that   *)
(* the calls share.                                                        *)
(***************************************************************************)
VARIABLES calls, registry

vars == <<op, args, env, ret, report, calls, registry>>

NoEnv == [fs |-> "nofile", content |-> <<>>]

Init ==
    /\ op = "init"
    /\ args = [log |-> Missing, format |-> MissingFormat]
    /\ env = NoEnv
    /\ ret = Return(<<>>)
    /\ report = <<>>
    /\ calls = <<>>
    /\ registry = ERROR_PATTERNS

DetectLogFormat ==
    /\ op = "init"
    /\ \E t \in Texts :
        /\ op' = "detect_log_format"
        /\ args' = [log |-> PyStrVal(t), format |-> MissingFormat]
        /\ ret' = detect_log_format(t)
        /\ env' = NoEnv
        /\ report' = <<>>
    /\ UNCHANGED <<calls, registry>>

ExtractStackFrames ==
    /\ op = "init"
    /\ \E t \in Texts :
        /\ op' = "extract_stack_frames"
        /\ args' = [log |-> PyStrVal(t), format |-> MissingFormat]
        /\ ret' = Return(extract_stack_frames(t))
        /\ env' = NoEnv
        /\ report' = <<>>
    /\ UNCHANGED <<calls, registry>>

AnalyzeError ==
    /\ op = "init"
    /\ \E t \in Texts, h \in Hints :
        /\ op' = "analyze_error"
        /\ args' = [log |-> PyStrVal(t), format |-> h]
        /\ ret' = analyze_error(PyStrVal(t), h)
        /\ env' = NoEnv
        /\ report' = <<>>
    /\ UNCHANGED <<calls, registry>>

\* format_analysis applied to the analysis that analyze_error returned
FormatAnalysis ==
    /\ op = "analyze_error"
    /\ ret.exc = "none"
    /\ op' = "format_analysis"
    /\ report' = format_analysis(ret.val)
    /\ UNCHANGED <<args, env, ret, calls, registry>>

\* format_analysis applied to an analysis that the caller built
FormatGiven ==
    /\ op = "init"
    /\ \E a \in GivenAnalyses :
        /\ op' = "format_given"
        /\ args' = [log |-> Missing, format |-> MissingFormat]
        /\ ret' = Return(a)
        /\ env' = NoEnv
        /\ report' = format_analysis(a)
    /\ UNCHANGED <<calls, registry>>

Execute ==
    /\ op = "init"
    /\ \E f \in FormatValues :
        \E l \in LogValues \cup PathValues, e \in Envs \cup {NoEnv} :
            /\ e # NoEnv => l \in PathValues
            /\ op' = "execute"
            /\ args' = [log |-> l, format |-> f]
            /\ env' = e
            /\ ret' = execute([log |-> l, format |-> f], e.fs, e.content)
            /\ report' = <<>>
    /\ UNCHANGED <<calls, registry>>

\* the caller drops what the last call returned
Discard ==
    /\ op # "init"
    /\ op' = "init"
    /\ args' = [log |-> Missing, format |-> MissingFormat]
    /\ env' = NoEnv
    /\ ret' = Return(<<>>)
    /\ report' = <<>>
    /\ UNCHANGED <<calls, registry>>

Next ==
    \/ DetectLogFormat
    \/ ExtractStackFrames
    \/ AnalyzeError
    \/ FormatAnalysis
    \/ FormatGiven
    \/ Execute
    \/ Discard

Spec == Init /\ [][Next]_vars

(***************************************************************************)
(* Properties.                                                             *)
(***************************************************************************)
\* analyze_error has returned a result (it is in ret.val)
Analyzed == op \in {"analyze_error", "format_analysis"} /\ ret.exc = "none"

\* the text passed to analyze_error
InputText == args.log.s

\* the text that matching and extraction ran on, in a state where Analyzed
MatchedText == RewriteLog(InputText, ret.val.format_detected).val

\* the signatures of the registry that occur in text t
MatchingSignatures(t) ==
    {i \in 1..Len(ERROR_PATTERNS) : re_search(ERROR_PATTERNS[i].alts, t, TRUE).ok}

\* the position in the registry of the signature with pattern text src
RegistryIndex(src) == CHOOSE i \in 1..Len(ERROR_PATTERNS) : ERROR_PATTERNS[i].src = src

\* C1: for every string text, format_analysis(analyze_error(text, "auto"))
\* returns a string and never raises: analyze_error called with "auto"
\* returns a result (which format_analysis then renders).
C1_RoundTripNeverRaises ==
    (op = "analyze_error" /\ args.format = "auto") => ret.exc = "none"

\* the text execute analyses: the text of the file, or log_input itself
ExecutedText == IF env.fs = "file" THEN PyStrVal(env.content) ELSE args.log

\* execute reached the analyse/format phase and analyze_error raised there
AnalysisPhaseFailed ==
    /\ op = "execute"
    /\ ~Falsy(IF args.log = Missing THEN PyStrVal(<<>>) ELSE args.log)
    /\ args.log.ty # "list"
    /\ env.fs # "unreadable"
    /\ analyze_error(ExecutedText,
                     IF args.format = MissingFormat THEN "auto" ELSE args.format).exc # "none"

\* C2: for every args mapping, execute returns a CommandResult and no
\* exception propagates; a failure of the analyse/format phase gives
\* success = false and an error that starts with "Analysis failed: ".
C2_ExecuteNeverRaises ==
    /\ op = "execute" => ret.exc = "none"
    /\ AnalysisPhaseFailed =>
         /\ ret.exc = "none"
         /\ ~ret.val.success
         /\ ret.val.error.some
         /\ Head(ret.val.error.s) = "Analysis failed: "

\* C3: in every CommandResult returned by execute, success = false implies
\* an empty output and a non-empty error message, success = true implies
\* no error and the rendered report as output; no result carries both a
\* report and an error.
C3_NoPartialResult ==
    (op = "execute" /\ ret.exc = "none") =>
        /\ ~ret.val.success =>
             /\ ret.val.output = <<>>
             /\ ret.val.error.some
             /\ ret.val.error.s # <<>>
        /\ ret.val.success =>
             /\ ret.val.error = None
             /\ ret.val.output # <<>>
             /\ Head(ret.val.output) = <<"# Error Analysis Report">>
             /\ ret.val.output =
                  format_analysis(
                      analyze_error(ExecutedText,
                                    IF args.format = MissingFormat THEN "auto"
                                    ELSE args.format).val)
        /\ ~(ret.val.output # <<>> /\ ret.val.error.some)

\* C3 witness: execute returned a failure of the analysis phase
C3_Witness ==
    /\ AnalysisPhaseFailed
    /\ ret.exc = "none"
    /\ ~ret.val.success
    /\ ret.val.output = <<>>

\* C4 as claimed: stack_frames is extract_stack_frames of the original,
\* unrewritten input text, whatever the format.
C4_FramesFromOriginalText ==
    Analyzed => ret.val.stack_frames = extract_stack_frames(InputText)

\* C4 as amended: stack_frames is extract_stack_frames of the text that
\* signature matching ran on: the text rebuilt from the mapping's fields when
\* the format is json and the text parses to a mapping, the input otherwise.
C4_FramesFromMatchedText ==
    Analyzed => ret.val.stack_frames = extract_stack_frames(MatchedText)

\* C4 witness: a json mapping whose rebuilt text holds a frame that the
\* input text does not show
C4_Witness ==
    /\ Analyzed
    /\ ret.val.format_detected = "json"
    /\ MatchedText # InputText
    /\ ret.val.stack_frames # <<>>
    /\ extract_stack_frames(InputText) = <<>>

\* C5 as claimed: analyze_error("", "auto") returns plain, no errors, no
\* frames, and exactly the three generic suggestions.
C5_EmptyInputThreeSuggestions ==
    (op = "analyze_error" /\ InputText = <<>> /\ args.format = "auto") =>
        /\ ret.exc = "none"
        /\ ret.val.format_detected = "plain"
        /\ ret.val.errors_found = <<>>
        /\ ret.val.stack_frames = <<>>
        /\ ret.val.suggestions = GenericSuggestions

\* C5 as amended: analyze_error("", "auto") returns plain, no errors, no
\* frames, and four suggestions: the no-match sentence followed by the three
\* generic suggestions.
C5_EmptyInputFourSuggestions ==
    (op = "analyze_error" /\ InputText = <<>> /\ args.format = "auto") =>
        /\ ret.exc = "none"
        /\ ret.val.format_detected = "plain"
        /\ ret.val.errors_found = <<>>
        /\ ret.val.stack_frames = <<>>
        /\ ret.val.suggestions = <<NoMatchSuggestion>> \o GenericSuggestions

\* C5 witness: analyze_error("", "auto") has returned
C5_Witness ==
    /\ op = "analyze_error" /\ InputText = <<>> /\ args.format = "auto"
    /\ ret.exc = "none"
    /\ Len(ret.val.suggestions) = 4

\* C6 as claimed: for every text passed to analyze that no signature
\* matches, errors_found is empty and the first suggestion is the no-match
\* sentence; and the sentence is among the suggestions only when errors_found
\* is empty.
C6_NoMatchOnInputText ==
    Analyzed =>
        /\ MatchingSignatures(InputText) = {} =>
             /\ ret.val.errors_found = <<>>
             /\ Head(ret.val.suggestions) = NoMatchSuggestion
        /\ (\E j \in 1..Len(ret.val.suggestions) : ret.val.suggestions[j] = NoMatchSuggestion)
             => ret.val.errors_found = <<>>

\* C6 as amended: the same, for every text that matching runs on (the input
\* text, or the text rebuilt from a json mapping) that no signature matches.
C6_NoMatchOnMatchedText ==
    Analyzed =>
        /\ MatchingSignatures(MatchedText) = {} =>
             /\ ret.val.errors_found = <<>>
             /\ Head(ret.val.suggestions) = NoMatchSuggestion
        /\ (\E j \in 1..Len(ret.val.suggestions) : ret.val.suggestions[j] = NoMatchSuggestion)
             => ret.val.errors_found = <<>>

\* C6 witness: a non-empty text that no signature matches was analysed
C6_Witness ==
    /\ Analyzed
    /\ InputText # <<>>
    /\ MatchingSignatures(MatchedText) = {}
    /\ Head(ret.val.suggestions) = NoMatchSuggestion

\* C7: every result returned by analyze_error, for every text and every
\* format hint, has a non-empty suggestions sequence.
C7_SuggestionsNeverEmpty ==
    Analyzed => ret.val.suggestions # <<>>

\* C7 witness: a result with matched errors and no stack frame, where
\* neither conditional suggestion applies
C7_Witness ==
    /\ Analyzed
    /\ ret.val.errors_found # <<>>
    /\ ret.val.stack_frames = <<>>
    /\ Len(ret.val.suggestions) = 3

\* C8: suggestions is, in order: the no-match sentence iff errors_found is
\* empty; the location sentence of stack_frames[1] iff stack_frames is not
\* empty; the three generic suggestions as the last three elements.  Its
\* length is 3, 4 or 5.
C8_SuggestionsOrder ==
    Analyzed =>
        LET sg == ret.val.suggestions
            n == Len(sg)
            nomatch == ret.val.errors_found = <<>>
            located == ret.val.stack_frames # <<>>
        IN  /\ n = 3 + (IF nomatch THEN 1 ELSE 0) + (IF located THEN 1 ELSE 0)
            /\ n \in {3, 4, 5}
            /\ sg[n - 2] = <<"Add logging around the error location for more context">>
            /\ sg[n - 1] = <<"Check if this error is reproducible consistently">>
            /\ sg[n] = <<"Review recent code changes that might have caused this">>
            /\ nomatch => sg[1] = NoMatchSuggestion
            /\ located =>
                 sg[n - 3] = <<"Error originated in ">> \o ret.val.stack_frames[1].file
                             \o <<":">> \o ret.val.stack_frames[1].line
                             \o <<" in function ">> \o ret.val.stack_frames[1].function
            /\ ~nomatch => \A j \in 1..n : sg[j] # NoMatchSuggestion
            /\ ~located => \A j \in 1..n : Head(sg[j]) # "Error originated in "

\* C8 witness: a result with all five suggestions
C8_Witness ==
    /\ Analyzed
    /\ Len(ret.val.suggestions) = 5
    /\ ret.val.errors_found = <<>>
    /\ ret.val.stack_frames # <<>>

\* C9: matching visits every signature in registry order with no early
\* exit: errors_found has exactly one entry for each signature that occurs in
\* the text matching runs on, built from its first occurrence, none for the
\* others, in registry order.
C9_MatchesEverySignature ==
    Analyzed =>
        LET ef == ret.val.errors_found
            hit == MatchingSignatures(MatchedText)
        IN  /\ Len(ef) = Cardinality(hit)
            /\ \A i \in hit :
                 \E j \in 1..Len(ef) :
                    /\ ef[j].pattern = ERROR_PATTERNS[i].src
                    /\ ef[j].match =
                         Group0(re_search(ERROR_PATTERNS[i].alts, MatchedText, TRUE),
                                MatchedText)
            /\ \A j \in 1..Len(ef) : RegistryIndex(ef[j].pattern) \in hit
            /\ \A j, k \in 1..Len(ef) :
                 j < k => RegistryIndex(ef[j].pattern) < RegistryIndex(ef[k].pattern)

\* C9 witness: two signatures matched the same substring (the match of the
\* later one lies inside the match of the earlier one)
C9_Witness ==
    /\ Analyzed
    /\ Len(ret.val.errors_found) >= 2
    /\ \E j, k \in 1..Len(ret.val.errors_found) :
         /\ j < k
         /\ LET mj == re_search(ERROR_PATTERNS[RegistryIndex(ret.val.errors_found[j].pattern)].alts,
                                MatchedText, TRUE)
                mk == re_search(ERROR_PATTERNS[RegistryIndex(ret.val.errors_found[k].pattern)].alts,
                                MatchedText, TRUE)
            IN  mj.start <= mk.start /\ mk.end <= mj.end

\* C10: extract_stack_frames returns every Python frame in order of
\* appearance, then every JavaScript frame in order of appearance, keeping
\* duplicates; a text with no frame gives the empty sequence.
C10_DialectMajorOrder ==
    op = "extract_stack_frames" =>
        LET fr == ret.val
            py == re_finditer(py_pattern, InputText)
            js == re_finditer(js_pattern, InputText)
        IN  /\ Len(fr) = Len(py) + Len(js)
            /\ \A i \in 1..Len(py) :
                 /\ fr[i].file = Group(py[i], InputText, 1)
                 /\ fr[i].line = Group(py[i], InputText, 2)
                 /\ fr[i].function = Group(py[i], InputText, 3)
                 /\ i > 1 => py[i - 1].end <= py[i].start
            /\ \A i \in 1..Len(js) :
                 /\ fr[Len(py) + i].file = Group(js[i], InputText, 2)
                 /\ fr[Len(py) + i].line = Group(js[i], InputText, 3)
                 /\ fr[Len(py) + i].function = Group(js[i], InputText, 1)
                 /\ i > 1 => js[i - 1].end <= js[i].start

\* C10 witness: a JavaScript frame stands before a Python frame in the text
\* and after it in the result
C10_Witness ==
    /\ op = "extract_stack_frames"
    /\ Len(ret.val) = 2
    /\ ret.val[1].file = <<"app.py">>
    /\ ret.val[2].file = <<"app.js">>
    /\ re_search(js_pattern, InputText, FALSE).start
         < re_search(py_pattern, InputText, FALSE).start

(***************************************************************************)
(* The HTTP status table.                                                  *)
(***************************************************************************)
HttpSignature == "(?:requests\\.exceptions\\.)?HTTPError.*(\\d{3})"

\* the entries of errors_found made by the HTTP-error signature
HttpEntries ==
    {i \in 1..Len(ret.val.errors_found) : ret.val.errors_found[i].pattern = HttpSignature}

\* the fixed table, by the code as the text carries it
HttpTable ==
    [c \in TableCodeToks |->
        CASE c = "400" -> "Bad Request - The server couldn't understand the request. Check request format."
          [] c = "401" -> "Unauthorized - Authentication required. Check API keys or login credentials."
          [] c = "403" -> "Forbidden - Access denied. Check permissions and authorization."
          [] c = "404" -> "Not Found - The resource doesn't exist. Verify the URL."
          [] c = "405" -> "Method Not Allowed - Wrong HTTP method. Check if using GET/POST/PUT/DELETE correctly."
          [] c = "408" -> "Request Timeout - The request took too long. Try again or increase timeout."
          [] c = "429" -> "Too Many Requests - Rate limited. Implement backoff and retry logic."
          [] c = "500" -> "Internal Server Error - Server-side issue. Check server logs."
          [] c = "502" -> "Bad Gateway - Proxy/load balancer issue. Check upstream services."
          [] c = "503" -> "Service Unavailable - Server is overloaded or under maintenance."
          [] OTHER -> "Gateway Timeout - Upstream server didn't respond in time."]

\* the position of the first HTTPError (in any case) of text t that has a run
\* of three digits after it on its line, and the positions of those runs
HasCodeAfter(t, h, j) ==
    /\ j > h
    /\ t[j] \in Digit3Toks
    /\ \A k \in h..j : t[k] # NL

HttpStart(t) ==
    CHOOSE h \in 1..Len(t) :
        /\ Fold(t[h]) = "httperror" /\ \E j \in 1..Len(t) : HasCodeAfter(t, h, j)
        /\ \A g \in 1..(h - 1) :
              ~(Fold(t[g]) = "httperror" /\ \E j \in 1..Len(t) : HasCodeAfter(t, g, j))

FirstCode(t) ==
    t[CHOOSE j \in 1..Len(t) :
        /\ HasCodeAfter(t, HttpStart(t), j)
        /\ \A k \in 1..(j - 1) : ~HasCodeAfter(t, HttpStart(t), k)]

LastCode(t) ==
    t[CHOOSE j \in 1..Len(t) :
        /\ HasCodeAfter(t, HttpStart(t), j)
        /\ \A k \in (j + 1)..Len(t) : ~HasCodeAfter(t, HttpStart(t), k)]

\* C11 as stated: the explanation of the HTTP-error signature is the table
\* entry of the three-digit code that follows HTTPError in the text, and for
\* a code N outside the table the generic message that names N as the text
\* carries it.
C11_ExplanationOfCarriedCode ==
    Analyzed =>
        \A i \in HttpEntries :
            LET c == FirstCode(MatchedText)
            IN  ret.val.errors_found[i].explanation =
                    IF c \in TableCodeToks THEN <<HttpTable[c]>>
                    ELSE <<"HTTP error ", c, ". Check the API documentation.">>

\* C11 amended: the code is the last run of three digits on the line of the
\* first HTTPError, read as an integer: the explanation is its table entry,
\* and outside the table the generic message with that integer in decimal
\* (without leading zeros); the lookup never fails.
C11_ExplanationOfLastCodeOnLine ==
    Analyzed =>
        \A i \in HttpEntries :
            LET c == LastCode(MatchedText)
            IN  ret.val.errors_found[i].explanation =
                    IF c \in TableCodeToks THEN <<HttpTable[c]>>
                    ELSE <<"HTTP error ", StrOfInt(IntOf(c)), ". Check the API documentation.">>

\* an analysis whose HTTP-error entry carries a code outside the table and
\* has the generic message
C11_Witness ==
    /\ Analyzed
    /\ \E i \in HttpEntries :
          /\ LastCode(MatchedText) = "599"
          /\ ret.val.errors_found[i].explanation =
                <<"HTTP error ", "599", ". Check the API documentation.">>

(***************************************************************************)
(* Format detection and format hints.                                      *)
(***************************************************************************)
FormatTags == {"json", "python", "javascript", "plain"}

\* the tag of the first detection rule that text t satisfies
FirstRuleTag(t) ==
    IF json_loads(t).st = "ok" THEN "json"
    ELSE IF \E i \in 1..Len(t) : t[i] = TracebackHeader THEN "python"
    ELSE IF re_search(js_pattern, t, FALSE).ok THEN "javascript"
    ELSE "plain"

\* C12: detect_log_format never raises, whatever the JSON parse of the text
\* does, and returns the tag of the first rule that matches in the order
\* json, python, javascript, plain: always one of the four tags.
C12_DetectNeverRaisesFirstRuleWins ==
    op = "detect_log_format" =>
        /\ ret.exc = "none"
        /\ ret.val \in FormatTags
        /\ ret.val = FirstRuleTag(InputText)

\* a detection that returns gives the tag of the first rule that matches
DetectReturnsFirstRuleTag ==
    (op = "detect_log_format" /\ ret.exc = "none") =>
        ret.val \in FormatTags /\ ret.val = FirstRuleTag(InputText)

\* analyze_error was called with a format hint other than "auto"
HintGiven == op = "analyze_error" /\ args.format # "auto"

\* the entries that matching makes on text t, in registry order
EntriesOn(t) ==
    LET found == MatchingSignatures(t)
        Before(i) == Cardinality({j \in found : j < i})
    IN  [n \in 1..Cardinality(found) |->
            LET i == CHOOSE j \in found : Before(j) = n - 1
            IN  [pattern |-> ERROR_PATTERNS[i].src,
                 match |-> Group0(re_search(ERROR_PATTERNS[i].alts, t, TRUE), t),
                 explanation |->
                     explanation_fn(i, re_search(ERROR_PATTERNS[i].alts, t, TRUE), t)]]

\* matching and extraction ran on text t itself
RanOnText(t) ==
    /\ ret.exc = "none"
    /\ ret.val.errors_found = EntriesOn(t)
    /\ ret.val.stack_frames = PyFrames(t) \o JsFrames(t)

\* C13: with a format hint other than "auto", analyze_error returns a result
\* whose format_detected is the hint verbatim, known tag or not; with the
\* hint "json" and a text that is not valid JSON the parse failure is
\* absorbed: the call returns, and matching and extraction ran on the
\* unchanged text.
C13_HintVerbatimParseFailureAbsorbed ==
    HintGiven =>
        /\ ret.exc = "none" => ret.val.format_detected = args.format
        /\ (args.format = "json" /\ json_loads(InputText).st # "ok") => RanOnText(InputText)

\* with a format hint other than "auto", a result that is returned carries
\* the hint verbatim, and the detector is not consulted: the hint "plain"
\* returns on a text on which detect_log_format raises; with the hint "json"
\* a text that json.loads rejects with JSONDecodeError is analysed unchanged
HintVerbatimDecodeErrorAbsorbed ==
    HintGiven =>
        /\ ret.exc = "none" => ret.val.format_detected = args.format
        /\ args.format # "json" => ret.exc = "none"
        /\ (args.format = "json" /\ json_loads(InputText).st = "JSONDecodeError")
              => RanOnText(InputText)

(***************************************************************************)
(* The text rebuilt from a JSON mapping.                                   *)
(***************************************************************************)
\* the value of field key in the pairs of a mapping: the empty string when
\* no pair has that key
FieldOrEmpty(pairs, key) ==
    IF \A i \in 1..Len(pairs) : pairs[i].key # <<key>> THEN JStr(<<>>)
    ELSE pairs[CHOOSE i \in 1..Len(pairs) :
                   /\ pairs[i].key = <<key>>
                   /\ \A j \in (i + 1)..Len(pairs) : pairs[j].key # <<key>>].val

\* message + " " + error + " " + str(stack) of a mapping whose message and
\* error are strings
RebuiltText(pairs) ==
    FieldOrEmpty(pairs, "message").s \o <<SP>> \o FieldOrEmpty(pairs, "error").s
    \o <<SP>> \o PyStr(FieldOrEmpty(pairs, "stack"))

\* C14: in every result of analyze_error under the format json, when the text
\* parses to a mapping errors_found holds the matches of the signatures on
\* message + " " + error + " " + str(stack), a missing field counting as the
\* empty string; when it parses to another value, matching and extraction
\* ran on the unchanged text; and {"message": "boom", "error": "ValueError: bad"}
\* with format auto gives format_detected json and a non-empty errors_found.
C14_JsonMappingMatchedOnRebuiltText ==
    /\ (Analyzed /\ ret.val.format_detected = "json" /\ json_loads(InputText).st = "ok") =>
          IF json_loads(InputText).v.k = "dict"
          THEN ret.val.errors_found = EntriesOn(RebuiltText(json_loads(InputText).v.items))
          ELSE RanOnText(InputText)
    /\ (op = "analyze_error" /\ InputText = ExampleDoc /\ args.format = "auto") =>
          /\ ret.exc = "none"
          /\ ret.val.format_detected = "json"
          /\ ret.val.errors_found # <<>>

\* the example document analysed under auto: detected as json, the
\* ValueError signature matched on the rebuilt text "boom ValueError: bad "
C14_Witness ==
    /\ op = "analyze_error" /\ ret.exc = "none"
    /\ InputText = ExampleDoc /\ args.format = "auto"
    /\ ret.val.format_detected = "json"
    /\ \E i \in 1..Len(ret.val.errors_found) :
          /\ ret.val.errors_found[i].pattern = "ValueError: (.+)"
          /\ ret.val.errors_found[i].match = <<"ValueError:", SP, "bad", SP>>

(***************************************************************************)
(* The report.                                                             *)
(***************************************************************************)
\* format_analysis has rendered the analysis in ret.val into report
Rendered == op \in {"format_analysis", "format_given"}

\* the lines of report r that are not blank
NonBlankLines(r) == SelectSeq(r, LAMBDA l : l # <<>>)

\* the three lines of entry i of errors_found
ErrorEntry(errors_found, i) ==
    << <<"### Error ", ToString(i)>>,
       <<"**Match:** ", BQ>> \o errors_found[i].match \o <<BQ>>,
       <<"**Explanation:** ">> \o errors_found[i].explanation >>

\* the section under header h with the lines ls: nothing when ls is empty
Section(h, ls) == IF ls = <<>> THEN <<>> ELSE << <<h>> >> \o ls

\* C15: the report holds, in this order and between blank lines only, the
\* title, the detected format, under "## Errors Identified" one numbered
\* entry per element of errors_found, under "## Stack Trace" the first 10
\* elements of stack_frames and no more, under "## Suggestions" every
\* suggestion; each header is there exactly when its sequence is not empty.
C15_ReportSectionsInOrder ==
    Rendered =>
        LET a == ret.val
            shown == IF Len(a.stack_frames) < 10 THEN Len(a.stack_frames) ELSE 10
        IN  NonBlankLines(report) =
                << <<"# Error Analysis Report">>,
                   <<"**Log Format:** ", a.format_detected>> >>
                \o Section("## Errors Identified",
                           [k \in 1..(3 * Len(a.errors_found)) |->
                               ErrorEntry(a.errors_found, ((k - 1) \div 3) + 1)[((k - 1) % 3) + 1]])
                \o Section("## Stack Trace",
                           [i \in 1..shown |-> FrameLine(a.stack_frames[i])])
                \o Section("## Suggestions",
                           [i \in 1..Len(a.suggestions) |-> <<"- ">> \o a.suggestions[i]])

\* the report of an analysis with more than 10 stack frames: it lists the
\* tenth frame and not the eleventh
C15_Witness ==
    /\ op = "format_given"
    /\ Len(ret.val.stack_frames) > 10
    /\ \E i \in 1..Len(report) : report[i] = FrameLine(ret.val.stack_frames[10])
    /\ \A i \in 1..Len(report) : report[i] # FrameLine(ret.val.stack_frames[11])

(***************************************************************************)
(* Concurrent calls.  Each call runs analyze_error statement by statement  *)
(* on its own local variables: log and log_format (the parameters, which   *)
(* the code reassigns), result (the dict built at lines 205-210) and the   *)
(* loop index i; input_log and input_format keep the arguments the call    *)
(* was made with, outcome what it returned or raised.  The scheduler may   *)
(* switch calls between any two statements.                                *)
(***************************************************************************)
NumCalls == 2

Calls == 1..NumCalls

\* the arguments of the concurrent calls: a JSON document (a KeyError and a
\* Python frame in its fields), a JavaScript log of two lines, and a JSON
\* document on which the analysis raises
ConcInputs ==
    {[log |-> Dumps(JDict(Field("error", JStr(KeyErrorLine))
                          \o Field("stack", JStr(PyFrameLine)))),
      log_format |-> "auto"],
     [log |-> JoinLines(<< <<"ValueError:", SP, "HTTPError", SP, "404">>, JsFrameLine >>),
      log_format |-> "auto"],
     [log |-> Dumps(JDict(Field("message", JNum("7")))), log_format |-> "json"]}

EmptyResult(log_format) ==
    [format_detected |-> log_format, errors_found |-> <<>>, suggestions |-> <<>>,
     stack_frames |-> <<>>]

\* a call that was made and has not run its first statement
NewCall(input) ==
    [pc |-> "resolve", input_log |-> input.log, input_format |-> input.log_format,
     log |-> input.log, log_format |-> input.log_format, i |-> 1,
     result |-> EmptyResult(""), outcome |-> Return(<<>>)]

\* the call raises e
Raised(call, e) == [call EXCEPT !.pc = "done", !.outcome = Raise(e)]

\* lines 202-203, fmt being what the resolution of the format gave
Resolved(call, fmt) ==
    IF fmt.exc # "none" THEN Raised(call, fmt.exc)
    ELSE [call EXCEPT !.pc = "build", !.log_format = fmt.val]

\* lines 213-219, text being what the rewriting gave
Rewritten(call, text) ==
    IF text.exc # "none" THEN Raised(call, text.exc)
    ELSE [call EXCEPT !.pc = "match", !.log = text.val, !.i = 1]

\* lines 223-229: the entry that signature i of the registry reg adds for log
MatchEntry(reg, log, i, match) ==
    IF match.ok
    THEN <<[pattern |-> reg[i].src, match |-> Group0(match, log),
            explanation |-> explanation_fn(i, match, log)]>>
    ELSE <<>>

\* AppendError with a fault: one errors_found list is shared by all calls
AppendError_shared(cs, c, entries) ==
    [d \in DOMAIN cs |->
        [cs[d] EXCEPT !.result.errors_found = @ \o entries,
                      !.i = IF d = c THEN @ + 1 ELSE @]]

\* lines 224-229: the entries are appended to the errors_found list of the
\* result of call c, and its loop goes on to the next signature
AppendError(cs, c, entries) ==
    [cs EXCEPT ![c].result.errors_found = @ \o entries, ![c].i = @ + 1]

ConcInit ==
    /\ op = "init"
    /\ args = [log |-> Missing, format |-> MissingFormat]
    /\ env = NoEnv
    /\ ret = Return(<<>>)
    /\ report = <<>>
    /\ calls \in [Calls -> {NewCall(input) : input \in ConcInputs}]
    /\ registry = ERROR_PATTERNS

\* lines 202-203
CallResolve(c) ==
    /\ calls[c].pc = "resolve"
    /\ calls' = [calls EXCEPT ![c] =
                    Resolved(calls[c], ResolveFormat(calls[c].log, calls[c].log_format))]
    /\ UNCHANGED <<op, args, env, ret, report, registry>>

\* lines 205-210
CallBuild(c) ==
    /\ calls[c].pc = "build"
    /\ calls' = [calls EXCEPT ![c].pc = "rewrite",
                              ![c].result = EmptyResult(calls[c].log_format)]
    /\ UNCHANGED <<op, args, env, ret, report, registry>>

\* lines 213-219
CallRewrite(c) ==
    /\ calls[c].pc = "rewrite"
    /\ calls' = [calls EXCEPT ![c] =
                    Rewritten(calls[c], RewriteLog(calls[c].log, calls[c].log_format))]
    /\ UNCHANGED <<op, args, env, ret, report, registry>>

\* lines 222-229: one iteration of the loop over the registry
CallMatch(c) ==
    /\ calls[c].pc = "match"
    /\ calls[c].i <= Len(registry)
    /\ calls' = AppendError(calls, c,
                    MatchEntry(registry, calls[c].log, calls[c].i,
                               re_search(registry[calls[c].i].alts, calls[c].log, TRUE)))
    /\ UNCHANGED <<op, args, env, ret, report, registry>>

\* lines 231-232, after the last signature
CallExtract(c) ==
    /\ calls[c].pc = "match"
    /\ calls[c].i > Len(registry)
    /\ calls' = [calls EXCEPT ![c].pc = "suggest",
                              ![c].result.stack_frames =
                                  extract_stack_frames(
                                      FramesSource(calls[c].log, calls[c].input_log))]
    /\ UNCHANGED <<op, args, env, ret, report, registry>>

\* lines 235-249
CallSuggest(c) ==
    /\ calls[c].pc = "suggest"
    /\ calls' = [calls EXCEPT ![c].pc = "return",
                              ![c].result.suggestions =
                                  BuildSuggestions(calls[c].result.errors_found,
                                                   calls[c].result.stack_frames)]
    /\ UNCHANGED <<op, args, env, ret, report, registry>>

\* line 251
CallReturn(c) ==
    /\ calls[c].pc = "return"
    /\ calls' = [calls EXCEPT ![c].pc = "done", ![c].outcome = Return(calls[c].result)]
    /\ UNCHANGED <<op, args, env, ret, report, registry>>

ConcNext ==
    \/ \E c \in Calls : CallResolve(c)
    \/ \E c \in Calls : CallBuild(c)
    \/ \E c \in Calls : CallRewrite(c)
    \/ \E c \in Calls : CallMatch(c)
    \/ \E c \in Calls : CallExtract(c)
    \/ \E c \in Calls : CallSuggest(c)
    \/ \E c \in Calls : CallReturn(c)

SpecConc == ConcInit /\ [][ConcNext]_vars

\* what analyze_error returns or raises when it runs alone on each input
AloneOutcome ==
    [input \in ConcInputs |-> analyze_error(PyStrVal(input.log), input.log_format)]

\* C16: the signature registry is never modified, and whatever the
\* interleaving of the statements of the concurrent calls, a call that has
\* ended returned (or raised) exactly what analyze_error gives alone on the
\* text and the format hint the call was made with.
C16_ConcurrentCallsIndependent ==
    /\ registry = ERROR_PATTERNS
    /\ \A c \in DOMAIN calls :
          calls[c].pc = "done" =>
              calls[c].outcome =
                  AloneOutcome[[log |-> calls[c].input_log,
                                log_format |-> calls[c].input_format]]

\* a call has returned its result with an error entry while another call,
\* made at the same time on another text, is inside its loop over the
\* registry and has appended an entry of its own
C16_Witness ==
    \E c, d \in DOMAIN calls :
        /\ calls[c].pc = "done" /\ calls[c].outcome.exc = "none"
        /\ calls[c].outcome.val.errors_found # <<>>
        /\ calls[d].pc = "match" /\ calls[d].i <= Len(registry)
        /\ calls[d].result.errors_found # <<>>
        /\ calls[d].input_log # calls[c].input_log

(***************************************************************************)
(* Detector and extractor.                                                 *)
(***************************************************************************)
\* analyze_error returned a result under the format tag that the detector
\* gave for the hint "auto"
AutoDetected(tag) ==
    Analyzed /\ args.format = "auto" /\ ret.val.format_detected = tag

\* the location sentence of frame f
LocationSentence(f) ==
    <<"Error originated in ">> \o f.file \o <<":">> \o f.line \o <<" in function ">>
    \o f.function

\* C17: whenever analyze_error, called with "auto", detects javascript,
\* stack_frames is not empty and suggestions holds the location sentence of
\* its first frame.
C17_JavascriptDetectedHasFrames ==
    AutoDetected("javascript") =>
        /\ ret.val.stack_frames # <<>>
        /\ \E i \in 1..Len(ret.val.suggestions) :
              ret.val.suggestions[i] = LocationSentence(ret.val.stack_frames[1])

\* a text detected as javascript whose first frame is the JavaScript frame
\* of the text
C17_Witness ==
    /\ AutoDetected("javascript")
    /\ ret.val.stack_frames # <<>>
    /\ ret.val.stack_frames[1] =
          [file |-> <<"app.js">>, line |-> <<"7">>, function |-> <<"main">>]

\* the same does not follow from python: a text with the traceback header
\* and no frame line is detected as python and has no stack frame
PythonDetectedWithoutFrames ==
    /\ AutoDetected("python")
    /\ ret.val.stack_frames = <<>>

====
